---- MODULE Spec2Model ----
(***************************************************************************)
(* A model of the IDX decoder of read-idx-array: the fixed-rank decoder of *)
(* src/lib.rs (IdxArray::<T, N>::parse and its accessors) and the any-rank *)
(* decoder of src/main.rs (IdxArray::<T>::new).                            *)
(*                                                                         *)
(* Bytes are 0..255.  u32 and usize values do not fit TLC's integers, so   *)
(* an unsigned integer of the program is the sequence of its base-256      *)
(* digits, least significant first, without leading zero digits ("Big");   *)
(* widths are the real ones: a u32 has 4 digits, a usize has usize_bytes.  *)
(* A parser is an operator on the remaining input slice that returns       *)
(* [ok |-> TRUE, rest, val] or [ok |-> FALSE], as a nom parser does.       *)
(***************************************************************************)
EXTENDS Integers, Sequences, FiniteSets, TLC

VARIABLES
    usize_bytes,  \* size_of::<usize>() of the target the decoder is built for
    entry,        \* "lib": IdxArray::<T, N>::parse, "main": IdxArray::<T>::new
    T,            \* the element type the caller asks for
    N,            \* the rank the caller asks for (lib.rs; unused by main.rs)
    input,        \* the byte buffer handed to the decoder
    src,          \* how the buffer was built: [T, dims, vals, complete, mut]
    stage,        \* the decode run's position
    x,            \* the remaining input slice (the variable x of parse)
    num_dims,     \* Some(rank read from the header) once it is bound
    dims,         \* Some(axis sizes) once they are bound
    elements,     \* Some(element count) once it is bound
    data,         \* Some(elements read) once they are bound
    result,       \* "pending", "Ok", "Err" or "Panic": what the entry point returned
    arr,          \* Some(the IdxArray the caller owns) or None
    out           \* what the last accessor call returned

vars == <<usize_bytes, entry, T, N, input, src, stage, x, num_dims, dims,
          elements, data, result, arr, out>>

\* ------------------------------------------------------------ bounds
\* Longest axis list the generated headers hold.
MaxRank == 3
\* Most elements a generated body holds; a shape with more gets no body.
MaxElems == 8
\* The generated element values start at offset 0..MaxShift of the value list.
MaxShift == 1
\* A decoded buffer of at most ShortLen bytes is tried with every trailing byte
\* 0..255, a longer one with the bytes of AppendBytes.
ShortLen == 12

\* ------------------------------------------------------------ options
None == [set |-> FALSE]
Some(v) == [set |-> TRUE, val |-> v]
Fail == [ok |-> FALSE]
Done(rest, val) == [ok |-> TRUE, rest |-> rest, val |-> val]
Drop(s, n) == SubSeq(s, n + 1, Len(s))
Take(s, n) == SubSeq(s, 1, n)
Rev(s) == [i \in 1..Len(s) |-> s[Len(s) + 1 - i]]

\* ------------------------------------------------------------ unsigned arithmetic
RECURSIVE Norm(_)
Norm(d) ==
    IF d = <<>> THEN <<>>
    ELSE IF d[Len(d)] = 0 THEN Norm(Take(d, Len(d) - 1))
    ELSE d

RECURSIVE IntToBig(_)
IntToBig(n) == IF n = 0 THEN <<>> ELSE <<n % 256>> \o IntToBig(n \div 256)

\* The value of a Big of at most 3 digits.
RECURSIVE BigToInt(_)
BigToInt(d) == IF d = <<>> THEN 0 ELSE d[1] + 256 * BigToInt(Tail(d))

RECURSIVE MulSmall(_, _, _)
MulSmall(a, m, c) ==
    IF a = <<>> THEN (IF c = 0 THEN <<>> ELSE <<c>>)
    ELSE LET t == a[1] * m + c
         IN  <<t % 256>> \o MulSmall(Tail(a), m, t \div 256)

RECURSIVE BigAdd(_, _, _)
BigAdd(a, b, c) ==
    IF a = <<>> /\ b = <<>> THEN (IF c = 0 THEN <<>> ELSE <<c>>)
    ELSE LET da == IF a = <<>> THEN 0 ELSE a[1]
             db == IF b = <<>> THEN 0 ELSE b[1]
             t  == da + db + c
         IN  <<t % 256>>
             \o BigAdd(IF a = <<>> THEN <<>> ELSE Tail(a),
                       IF b = <<>> THEN <<>> ELSE Tail(b), t \div 256)

\* The mathematical product of two unsigned integers.
RECURSIVE BigMul(_, _)
BigMul(a, b) ==
    IF b = <<>> THEN <<>>
    ELSE Norm(BigAdd(MulSmall(a, b[1], 0), <<0>> \o BigMul(a, Tail(b)), 0))

\* a <= b
RECURSIVE BigLeqSameLen(_, _)
BigLeqSameLen(a, b) ==
    IF a = <<>> THEN TRUE
    ELSE IF a[Len(a)] # b[Len(b)] THEN a[Len(a)] < b[Len(b)]
    ELSE BigLeqSameLen(Take(a, Len(a) - 1), Take(b, Len(b) - 1))

BigLeq(a, b) == Len(a) < Len(b) \/ (Len(a) = Len(b) /\ BigLeqSameLen(a, b))

\* usize::wrapping_mul: the product modulo 2^(8 * ub).
checked_mul_wrapping(a, b, ub) ==
    LET p == BigMul(a, b)
    IN  Some(Norm(Take(p, IF Len(p) < ub THEN Len(p) ELSE ub)))

\* usize::checked_mul on a target whose usize has ub bytes.
checked_mul(a, b, ub) ==
    LET p == BigMul(a, b)
    IN  IF Len(p) > ub THEN None ELSE Some(p)

\* usize::try_from(u32): fails when the value needs more than ub bytes.
usize_try_from(b, ub) == IF Len(b) > ub THEN None ELSE Some(b)

\* usize::from(u8)
usize_from_u8(b) == IntToBig(b)

\* ------------------------------------------------------------ element types
Types == {"u8", "i8", "i16", "i32", "f32", "f64"}

MAGIC_BYTE(t) ==
    CASE t = "u8"  -> 8
      [] t = "i8"  -> 9
      [] t = "i16" -> 11
      [] t = "i32" -> 12
      [] t = "f32" -> 13
      [] t = "f64" -> 14

\* nom::number::complete::be_*: fixed-width big-endian reads.
be_u8(s) == IF Len(s) < 1 THEN Fail ELSE Done(Drop(s, 1), s[1])

\* An i8 read without the sign.
be_i8_unsigned(s) == be_u8(s)

be_i8(s) ==
    IF Len(s) < 1 THEN Fail
    ELSE Done(Drop(s, 1), IF s[1] >= 128 THEN s[1] - 256 ELSE s[1])

be_i16(s) ==
    IF Len(s) < 2 THEN Fail
    ELSE LET u == s[1] * 256 + s[2]
         IN  Done(Drop(s, 2), IF u >= 32768 THEN u - 65536 ELSE u)

be_i32(s) ==
    IF Len(s) < 4 THEN Fail
    ELSE LET hi == IF s[1] >= 128 THEN s[1] - 256 ELSE s[1]
         IN  Done(Drop(s, 4), hi * 16777216 + s[2] * 65536 + s[3] * 256 + s[4])

be_u32(s) ==
    IF Len(s) < 4 THEN Fail
    ELSE Done(Drop(s, 4), Norm(<<s[4], s[3], s[2], s[1]>>))

\* An IEEE-754 value is its sign, biased exponent and mantissa fields.
be_f32(s) ==
    IF Len(s) < 4 THEN Fail
    ELSE Done(Drop(s, 4),
              [sign |-> s[1] \div 128,
               exp  |-> (s[1] % 128) * 2 + s[2] \div 128,
               mant |-> (s[2] % 128) * 65536 + s[3] * 256 + s[4]])

be_f64(s) ==
    IF Len(s) < 8 THEN Fail
    ELSE Done(Drop(s, 8),
              [sign |-> s[1] \div 128,
               exp  |-> (s[1] % 128) * 16 + s[2] \div 16,
               mant |-> Norm(<<s[8], s[7], s[6], s[5], s[4], s[3], s[2] % 16>>)])

\* T::combinator() with the i8 elements read as unsigned bytes.
combinator_unsigned_i8(t, s) ==
    CASE t = "u8"  -> be_u8(s)
      [] t = "i8"  -> be_i8_unsigned(s)
      [] t = "i16" -> be_i16(s)
      [] t = "i32" -> be_i32(s)
      [] t = "f32" -> be_f32(s)
      [] t = "f64" -> be_f64(s)

\* T::combinator()
combinator(t, s) ==
    CASE t = "u8"  -> be_u8(s)
      [] t = "i8"  -> be_i8(s)
      [] t = "i16" -> be_i16(s)
      [] t = "i32" -> be_i32(s)
      [] t = "f32" -> be_f32(s)
      [] t = "f64" -> be_f64(s)

\* The parser count repeats: be_u32 for the axis sizes, T::combinator() otherwise.
Parser(kind, s) == IF kind = "u32" THEN be_u32(s) ELSE combinator(kind, s)

\* ------------------------------------------------------------ combinators
\* tag([0u8; 2])
tag(s) ==
    IF Len(s) >= 2 /\ s[1] = 0 /\ s[2] = 0 THEN Done(Drop(s, 2), <<0, 0>>)
    ELSE Fail

\* An end-of-input check that accepts any rest.
eof_always(s) == Done(s, <<>>)

\* nom::combinator::eof
eof(s) == IF s = <<>> THEN Done(s, <<>>) ELSE Fail

\* A count that stops at the end of the input instead of failing.
RECURSIVE count_lenient_loop(_, _, _, _, _)
count_lenient_loop(kind, n, i, s, acc) ==
    IF IntToBig(i) = n \/ s = <<>> THEN Done(s, acc)
    ELSE LET r == Parser(kind, s)
         IN  IF r.ok THEN count_lenient_loop(kind, n, i + 1, r.rest, Append(acc, r.val))
             ELSE Fail

count_lenient(kind, n, s) == count_lenient_loop(kind, n, 0, s, <<>>)

\* nom::multi::count(parser, n): n runs of the parser, failing with the first
\* run that fails.  (The vector count fills is allocated with a capped initial
\* capacity, as nom 7.1 does, so a huge n costs nothing before the reads fail.)
RECURSIVE count_loop(_, _, _, _, _)
count_loop(kind, n, i, s, acc) ==
    IF IntToBig(i) = n THEN Done(s, acc)
    ELSE LET r == Parser(kind, s)
         IN  IF r.ok THEN count_loop(kind, n, i + 1, r.rest, Append(acc, r.val))
             ELSE Fail

count(kind, n, s) == count_loop(kind, n, 0, s, <<>>)

\* ------------------------------------------------------------ src/lib.rs
\* A tag check that accepts any byte.
check_magic_byte_any(t, b) == TRUE

check_magic_byte(t, b) == b = MAGIC_BYTE(t)

check_num_dims(n, b) ==
    LET nd == usize_from_u8(b)
    IN  IF nd = IntToBig(n) THEN Some(nd) ELSE None

\* try_fold(1usize, |a, &b| a.checked_mul(usize::try_from(b).ok()?))
RECURSIVE try_fold_mul(_, _, _)
try_fold_mul(a, ds, ub) ==
    IF ds = <<>> THEN Some(a)
    ELSE LET b == usize_try_from(ds[1], ub)
             p == checked_mul(a, b.val, ub)
         IN  IF ~b.set THEN None
             ELSE IF ~p.set THEN None
             ELSE try_fold_mul(p.val, Tail(ds), ub)

\* A fold that takes a zero axis anywhere as a zero product.
fold_dims_zero_first(ds, ub) ==
    IF \E i \in 1..Len(ds) : ds[i] = <<>> THEN Some(<<>>)
    ELSE try_fold_mul(<<1>>, ds, ub)

fold_dims(ds, ub) == try_fold_mul(<<1>>, ds, ub)

check_dims_dimensions(n, ds, ub) ==
    IF Len(ds) # n THEN None
    ELSE LET e == fold_dims(ds, ub)
         IN  IF e.set THEN Some([dims |-> ds, elements |-> e.val]) ELSE None

\* map_res(be_u8, check_magic_byte::<T>)
magic_parser(t, s) ==
    LET r == be_u8(s)
    IN  IF r.ok /\ check_magic_byte(t, r.val) THEN r ELSE Fail

\* The rank byte is skipped and N axis sizes are read.
num_dims_parser_ignore(n, s) ==
    LET r == be_u8(s)
    IN  IF r.ok THEN Done(r.rest, IntToBig(n)) ELSE Fail

\* map_res(be_u8, check_num_dims::<N>)
num_dims_parser(n, s) ==
    LET r == be_u8(s)
        c == check_num_dims(n, r.val)
    IN  IF r.ok /\ c.set THEN Done(r.rest, c.val) ELSE Fail

\* map_res(count(be_u32, num_dims), check_dims_dimensions)
dims_parser(n, nd, s, ub) ==
    LET r == count("u32", nd, s)
        c == check_dims_dimensions(n, r.val, ub)
    IN  IF r.ok /\ c.set THEN Done(r.rest, c.val) ELSE Fail

Ok(ds, d) == [kind |-> "Ok", dims |-> ds, data |-> d]
Error == [kind |-> "Err"]
Panic == [kind |-> "Panic"]

\* parse::<T, N> followed by IdxArray::<T, N>::parse's match, as one function.
parse(t, n, buf, ub) ==
    LET s1 == tag(buf)
        s2 == magic_parser(t, s1.rest)
        s3 == num_dims_parser(n, s2.rest)
        s4 == dims_parser(n, s3.val, s3.rest, ub)
        s5 == count(t, s4.val.elements, s4.rest)
        s6 == eof(s5.rest)
    IN  IF ~s1.ok THEN Error
        ELSE IF ~s2.ok THEN Error
        ELSE IF ~s3.ok THEN Error
        ELSE IF ~s4.ok THEN Error
        ELSE IF ~s5.ok THEN Error
        ELSE IF ~s6.ok THEN Error
        ELSE Ok(s4.val.dims, s5.val)

\* ------------------------------------------------------------ src/main.rs
\* map_res(count(be_u32, num_dims), |dims| ... usize::try_from ... collect)
main_parse_dims(nd, s, ub) ==
    LET r == count("u32", nd, s)
    IN  IF r.ok /\ \A i \in 1..Len(r.val) : usize_try_from(r.val[i], ub).set
        THEN r ELSE Fail

\* parse::<T> followed by IdxArray::<T>::new's match, as one function.
main_new(t, buf, ub) ==
    LET s1 == tag(buf)
        s2 == magic_parser(t, s1.rest)
        s3 == be_u8(s2.rest)
        s4 == main_parse_dims(usize_from_u8(s3.val), s3.rest, ub)
        e  == fold_dims(s4.val, ub)
        s5 == count(t, e.val, s4.rest)
        s6 == eof(s5.rest)
    IN  IF ~s1.ok THEN Error
        ELSE IF ~s2.ok THEN Error
        ELSE IF ~s3.ok THEN Error
        ELSE IF ~s4.ok THEN Error
        ELSE IF ~e.set THEN Panic
        ELSE IF ~s5.ok THEN Error
        ELSE IF ~s6.ok THEN Error
        ELSE Ok(s4.val, s5.val)

\* The entry point e on buffer buf.
Decode(e, t, n, buf, ub) ==
    IF e = "lib" THEN parse(t, n, buf, ub) ELSE main_new(t, buf, ub)

\* ------------------------------------------------------------ accessors
PanicOut == [kind |-> "panic"]

\* <[T]>::chunks_exact(chunk_size) for chunk_size > 0; a chunk size of 2^24 or
\* more is longer than any buffer of the model.
chunks_exact(d, cs) ==
    IF Len(cs) > 3 THEN <<>>
    ELSE LET c == BigToInt(cs)
         IN  [i \in 1..(Len(d) \div c) |-> SubSeq(d, (i - 1) * c + 1, i * c)]

\* image::GrayImage::from_raw: None when the buffer is shorter than width * height.
from_raw(w, h, buf, ub) ==
    LET l == checked_mul(w, h, ub)
    IN  IF l.set /\ BigLeq(l.val, IntToBig(Len(buf)))
        THEN Some([width |-> w, height |-> h, pixels |-> buf])
        ELSE None

\* IdxArray<u8, 3>::as_gray_image_sequence.  width * height is a u32 product:
\* a build with overflow checks panics when it overflows, one without wraps it.
as_gray_image_sequence(a, overflow_checks, ub) ==
    LET height == a.dims[2]
        width  == a.dims[3]
        p      == BigMul(width, height)
        wrapped == Norm(Take(p, IF Len(p) < 4 THEN Len(p) ELSE 4))
        cs     == Norm(Take(wrapped, IF Len(wrapped) < ub THEN Len(wrapped) ELSE ub))
        chunks == chunks_exact(a.data, cs)
        imgs   == [i \in 1..Len(chunks) |-> from_raw(width, height, chunks[i], ub)]
    IN  IF Len(p) > 4 /\ overflow_checks THEN PanicOut
        ELSE IF cs = <<>> THEN PanicOut
        ELSE IF \E i \in 1..Len(imgs) : ~imgs[i].set THEN PanicOut
        ELSE [kind |-> "images", images |-> [i \in 1..Len(imgs) |-> imgs[i].val]]

\* ------------------------------------------------------------ input buffers
SmallDims == {<<>>, <<2>>}
BigDims == {<<0, 0, 1>>, <<255, 255, 255, 255>>}
DimLists ==
    (UNION {[1..r -> SmallDims \cup BigDims] : r \in 0..MaxRank}) \cup {<< <<1>> >>, << <<3>> >>}

ElemValues(t) ==
    CASE t = "u8"  -> <<5, 0, 9, 255, 128>>
      [] t = "i8"  -> <<-1, 0, 127, -128, 5>>
      [] t = "i16" -> <<258, -1, -32768, 32767, 0>>
      [] t = "i32" -> <<16909060, -1, -2147483647 - 1, 2147483647, 0>>
      [] t = "f32" -> <<[sign |-> 0, exp |-> 127, mant |-> 0],
                        [sign |-> 1, exp |-> 128, mant |-> 2097152],
                        [sign |-> 0, exp |-> 255, mant |-> 4194305],
                        [sign |-> 0, exp |-> 0, mant |-> 1],
                        [sign |-> 1, exp |-> 0, mant |-> 0]>>
      [] t = "f64" -> <<[sign |-> 0, exp |-> 1023, mant |-> <<>>],
                        [sign |-> 1, exp |-> 1024, mant |-> <<0, 0, 0, 0, 0, 0, 4>>],
                        [sign |-> 0, exp |-> 2047, mant |-> <<1, 0, 0, 0, 0, 0, 8>>],
                        [sign |-> 0, exp |-> 0, mant |-> <<1>>],
                        [sign |-> 1, exp |-> 0, mant |-> <<>>]>>

Pattern(t, c, shift) ==
    [i \in 1..c |-> ElemValues(t)[((i - 1 + shift) % Len(ElemValues(t))) + 1]]

RECURSIVE MathProduct(_)
MathProduct(ds) == IF ds = <<>> THEN <<1>> ELSE BigMul(ds[1], MathProduct(Tail(ds)))

\* The digits of v, padded to w digits, most significant first.
ToBE(v, w) == Rev(v \o [i \in 1..(w - Len(v)) |-> 0])

\* T::to_be_bytes
EncodeElem(t, v) ==
    CASE t = "u8"  -> <<v>>
      [] t = "i8"  -> <<v % 256>>
      [] t = "i16" -> <<(v \div 256) % 256, v % 256>>
      [] t = "i32" -> <<(v \div 16777216) % 256, (v \div 65536) % 256,
                        (v \div 256) % 256, v % 256>>
      [] t = "f32" -> <<v.sign * 128 + v.exp \div 2,
                        (v.exp % 2) * 128 + v.mant \div 65536,
                        (v.mant \div 256) % 256, v.mant % 256>>
      [] t = "f64" -> LET m == ToBE(v.mant, 7)
                      IN  <<v.sign * 128 + v.exp \div 16,
                            (v.exp % 16) * 16 + m[1]>> \o Tail(m)

RECURSIVE Flatten(_)
Flatten(ss) == IF ss = <<>> THEN <<>> ELSE ss[1] \o Flatten(Tail(ss))

\* The IDX encoding of an array: signature, tag, rank, axes, elements.
Encode(t, ds, vals) ==
    <<0, 0, MAGIC_BYTE(t), Len(ds)>>
    \o Flatten([i \in 1..Len(ds) |-> ToBE(ds[i], 4)])
    \o Flatten([i \in 1..Len(vals) |-> EncodeElem(t, vals[i])])

\* A generated array: a shape with more than MaxElems elements gets no body,
\* so its buffer is not a complete encoding.
Complete(ds) == BigLeq(MathProduct(ds), IntToBig(MaxElems))
Bases ==
    {[T |-> t, dims |-> ds, complete |-> Complete(ds), shift |-> k,
      vals |-> Pattern(t, IF Complete(ds) THEN BigToInt(MathProduct(ds)) ELSE 0, k)] :
        t \in Types, ds \in DimLists, k \in 0..MaxShift}

TagBytes == {0, 8, 9, 10, 11, 12, 13, 14, 255}
RankBytes == {0, 1, 2, 3, 4, 255}
AppendBytes == {0, 255}
NoMut == [kind |-> "none", arg |-> 0]

\* What is done to a generated encoding before it is decoded; the encodings
\* that are changed are those of the small shapes with the unshifted values.
Mutations(b, e) ==
    LET buf == Encode(b.T, b.dims, b.vals)
    IN  {NoMut}
        \cup (IF b.shift = 0 /\ \A i \in 1..Len(b.dims) : Len(b.dims[i]) <= 1
              THEN {[kind |-> "trunc", arg |-> k] : k \in 0..(Len(buf) - 1)}
                   \cup {[kind |-> "append", arg |-> c] : c \in AppendBytes}
                   \cup {[kind |-> "settag", arg |-> c] : c \in TagBytes \ {MAGIC_BYTE(b.T)}}
                   \cup {[kind |-> "setrank", arg |-> r] : r \in RankBytes \ {Len(b.dims)}}
                   \cup {[kind |-> "setsig", arg |-> i] : i \in 1..2}
                   \cup (IF e = "lib"
                         THEN {[kind |-> "reqrank", arg |-> n] :
                                   n \in (0..MaxRank) \ {Len(b.dims)}}
                         ELSE {})
              ELSE {})

ApplyMut(buf, m) ==
    CASE m.kind = "trunc"   -> Take(buf, m.arg)
      [] m.kind = "append"  -> Append(buf, m.arg)
      [] m.kind = "settag"  -> [buf EXCEPT ![3] = m.arg]
      [] m.kind = "setrank" -> [buf EXCEPT ![4] = m.arg]
      [] m.kind = "setsig"  -> [buf EXCEPT ![m.arg] = 1]
      [] OTHER              -> buf

\* size_of::<usize>() of the 32- and 64-bit targets.
PointerBytes == {4, 8}
Entries == {"lib", "main"}

\* ------------------------------------------------------------ the decode run
Init ==
    \E ub \in PointerBytes, e \in Entries, b \in Bases :
        \E m \in Mutations(b, e) :
            /\ usize_bytes = ub
            /\ entry = e
            /\ T = b.T
            /\ N = IF m.kind = "reqrank" THEN m.arg ELSE Len(b.dims)
            /\ input = ApplyMut(Encode(b.T, b.dims, b.vals), m)
            /\ src = [T |-> b.T, dims |-> b.dims, vals |-> b.vals,
                      complete |-> b.complete, mut |-> m]
            /\ stage = "Start"
            /\ x = input
            /\ num_dims = None
            /\ dims = None
            /\ elements = None
            /\ data = None
            /\ result = "pending"
            /\ arr = None
            /\ out = [kind |-> "none"]

Call == <<usize_bytes, entry, T, N, input, src>>

\* A failed run returns a default (empty) array instead of the error.
FailRunDefault ==
    /\ stage' = "Failed"
    /\ result' = "Ok"
    /\ arr' = Some([dims |-> <<>>, data |-> <<>>])
    /\ UNCHANGED <<Call, x, num_dims, dims, elements, data, out>>

\* The ? of a failed step, and the Err(_) => Err(Error) arm of the entry point.
FailRun ==
    /\ stage' = "Failed"
    /\ result' = "Err"
    /\ UNCHANGED <<Call, x, num_dims, dims, elements, data, arr, out>>

\* tag([0u8; 2])
Signature ==
    /\ entry = "lib" /\ stage = "Start"
    /\ LET r == tag(x)
       IN  IF r.ok
           THEN /\ stage' = "SignatureChecked"
                /\ x' = r.rest
                /\ UNCHANGED <<Call, num_dims, dims, elements, data, result, arr, out>>
           ELSE FailRun

\* map_res(be_u8, check_magic_byte::<T>)
TypeTag ==
    /\ entry = "lib" /\ stage = "SignatureChecked"
    /\ LET r == magic_parser(T, x)
       IN  IF r.ok
           THEN /\ stage' = "TypeTagChecked"
                /\ x' = r.rest
                /\ UNCHANGED <<Call, num_dims, dims, elements, data, result, arr, out>>
           ELSE FailRun

\* map_res(be_u8, check_num_dims::<N>)
Rank ==
    /\ entry = "lib" /\ stage = "TypeTagChecked"
    /\ LET r == num_dims_parser(N, x)
       IN  IF r.ok
           THEN /\ stage' = "RankChecked"
                /\ x' = r.rest
                /\ num_dims' = Some(r.val)
                /\ UNCHANGED <<Call, dims, elements, data, result, arr, out>>
           ELSE FailRun

\* map_res(count(be_u32, num_dims), check_dims_dimensions)
Shape ==
    /\ entry = "lib" /\ stage = "RankChecked"
    /\ LET r == dims_parser(N, num_dims.val, x, usize_bytes)
       IN  IF r.ok
           THEN /\ stage' = "ShapeParsed"
                /\ x' = r.rest
                /\ dims' = Some(r.val.dims)
                /\ elements' = Some(r.val.elements)
                /\ UNCHANGED <<Call, num_dims, data, result, arr, out>>
           ELSE FailRun

\* count(T::combinator(), elements)
Elements ==
    /\ entry = "lib" /\ stage = "ShapeParsed"
    /\ LET r == count(T, elements.val, x)
       IN  IF r.ok
           THEN /\ stage' = "ElementsParsed"
                /\ x' = r.rest
                /\ data' = Some(r.val)
                /\ UNCHANGED <<Call, num_dims, dims, elements, result, arr, out>>
           ELSE FailRun

\* eof, Ok((x, (dims, data))), and the Ok arm of IdxArray::parse
EndOfInput ==
    /\ entry = "lib" /\ stage = "ElementsParsed"
    /\ LET r == eof(x)
       IN  IF r.ok
           THEN /\ stage' = "EndOfInputChecked"
                /\ x' = r.rest
                /\ result' = "Ok"
                /\ arr' = Some([dims |-> dims.val, data |-> data.val])
                /\ UNCHANGED <<Call, num_dims, dims, elements, data, out>>
           ELSE FailRun

\* main.rs: tag([0u8; 2])
MainSignature ==
    /\ entry = "main" /\ stage = "Start"
    /\ LET r == tag(x)
       IN  IF r.ok
           THEN /\ stage' = "SignatureChecked"
                /\ x' = r.rest
                /\ UNCHANGED <<Call, num_dims, dims, elements, data, result, arr, out>>
           ELSE FailRun

\* main.rs: cut(map_res(be_u8, check_magic_byte::<T>))
MainTypeTag ==
    /\ entry = "main" /\ stage = "SignatureChecked"
    /\ LET r == magic_parser(T, x)
       IN  IF r.ok
           THEN /\ stage' = "TypeTagChecked"
                /\ x' = r.rest
                /\ UNCHANGED <<Call, num_dims, dims, elements, data, result, arr, out>>
           ELSE FailRun

\* main.rs: be_u8, Ok((x, usize::from(num_dims)))
MainRank ==
    /\ entry = "main" /\ stage = "TypeTagChecked"
    /\ LET r == be_u8(x)
       IN  IF r.ok
           THEN /\ stage' = "RankChecked"
                /\ x' = r.rest
                /\ num_dims' = Some(usize_from_u8(r.val))
                /\ UNCHANGED <<Call, dims, elements, data, result, arr, out>>
           ELSE FailRun

\* main.rs: parse_dims
MainShape ==
    /\ entry = "main" /\ stage = "RankChecked"
    /\ LET r == main_parse_dims(num_dims.val, x, usize_bytes)
       IN  IF r.ok
           THEN /\ stage' = "ShapeParsed"
                /\ x' = r.rest
                /\ dims' = Some(r.val)
                /\ UNCHANGED <<Call, num_dims, elements, data, result, arr, out>>
           ELSE FailRun

\* main.rs: parse_body; expect("overflow") panics when the fold overflows
MainBody ==
    /\ entry = "main" /\ stage = "ShapeParsed"
    /\ LET e == fold_dims(dims.val, usize_bytes)
           r == count(T, e.val, x)
       IN  IF ~e.set
           THEN /\ stage' = "Aborted"
                /\ result' = "Panic"
                /\ UNCHANGED <<Call, x, num_dims, dims, elements, data, arr, out>>
           ELSE IF r.ok
           THEN /\ stage' = "ElementsParsed"
                /\ x' = r.rest
                /\ elements' = Some(e.val)
                /\ data' = Some(r.val)
                /\ UNCHANGED <<Call, num_dims, dims, result, arr, out>>
           ELSE FailRun

\* main.rs: eof, Ok((x, IdxArray { dims, data })), and the Ok arm of new
MainEndOfInput ==
    /\ entry = "main" /\ stage = "ElementsParsed"
    /\ LET r == eof(x)
       IN  IF r.ok
           THEN /\ stage' = "EndOfInputChecked"
                /\ x' = r.rest
                /\ result' = "Ok"
                /\ arr' = Some([dims |-> dims.val, data |-> data.val])
                /\ UNCHANGED <<Call, num_dims, dims, elements, data, out>>
           ELSE FailRun

\* dims_data(self): the array is moved out
DimsData ==
    /\ arr.set
    /\ out' = [kind |-> "dims_data", dims |-> arr.val.dims, data |-> arr.val.data]
    /\ arr' = None
    /\ UNCHANGED <<Call, stage, x, num_dims, dims, elements, data, result>>

\* IdxArray<T, 1>::into_sequence(self)
IntoSequence ==
    /\ entry = "lib" /\ N = 1
    /\ arr.set
    /\ out' = [kind |-> "sequence", seq |-> arr.val.data]
    /\ arr' = None
    /\ UNCHANGED <<Call, stage, x, num_dims, dims, elements, data, result>>

\* IdxArray<u8, 3>::as_gray_image_sequence(&self)
AsGrayImageSequence ==
    /\ entry = "lib" /\ N = 3 /\ T = "u8"
    /\ arr.set
    /\ \E overflow_checks \in BOOLEAN :
           out' = as_gray_image_sequence(arr.val, overflow_checks, usize_bytes)
    /\ UNCHANGED <<Call, stage, x, num_dims, dims, elements, data, result, arr>>

Next ==
    \/ Signature \/ TypeTag \/ Rank \/ Shape \/ Elements \/ EndOfInput
    \/ MainSignature \/ MainTypeTag \/ MainRank \/ MainShape \/ MainBody
    \/ MainEndOfInput
    \/ DimsData \/ IntoSequence \/ AsGrayImageSequence

Spec == Init /\ [][Next]_vars

\* The run's steps and the whole-function operators agree.
Agree ==
    /\ result # "pending" =>
           Decode(entry, T, N, input, usize_bytes).kind = result
    /\ arr.set =>
           Decode(entry, T, N, input, usize_bytes) = Ok(arr.val.dims, arr.val.data)

\* ------------------------------------------------------------ vocabulary of the claims
\* v is at most usize::MAX of the target.
Fits(v) == Len(v) <= usize_bytes
ProductFits(ds) == Fits(MathProduct(ds))
\* Every axis size and every left-to-right running product fits usize.
PrefixesFit(ds) ==
    \A k \in 1..Len(ds) : Fits(ds[k]) /\ Fits(MathProduct(Take(ds, k)))
HasZeroAxis(ds) == \E i \in 1..Len(ds) : ds[i] = <<>>
Succeeded == result = "Ok" /\ arr.set /\ out.kind = "none"
PastRank == {"RankChecked", "ShapeParsed", "ElementsParsed", "EndOfInputChecked", "Aborted"}
PastTypeTag == PastRank \cup {"TypeTagChecked"}

\* The buffer is the complete encoding of src for the fixed-rank decoder.
ValidEncoding == entry = "lib" /\ src.mut.kind = "none" /\ src.complete

RoundTrips ==
    /\ stage # "Failed"
    /\ result # "pending" => parse(T, N, input, usize_bytes) = Ok(src.dims, src.vals)
    /\ arr.set => arr.val = [dims |-> src.dims, data |-> src.vals]
    /\ out.kind = "dims_data" => out.dims = src.dims /\ out.data = src.vals

\* The rank byte was read and the buffer holds that many axis sizes, and the
\* step that computes the element count has run.
ShapeRead ==
    /\ num_dims.set
    /\ Len(input) >= 4 + 4 * BigToInt(num_dims.val)
    /\ stage \notin (IF entry = "lib" THEN {"RankChecked"}
                                     ELSE {"RankChecked", "ShapeParsed"})
HeaderAxes ==
    [i \in 1..BigToInt(num_dims.val) |-> be_u32(SubSeq(input, 4 * i + 1, 4 * i + 4)).val]
\* The element count could not be computed: the shape step failed although the
\* axis sizes were all there (lib.rs, and main.rs's try_from), or the fold of
\* main.rs panicked.
OverflowDetected ==
    \/ stage = "Failed" /\ ~dims.set
    \/ stage = "Aborted"

\* ------------------------------------------------------------ C1
\* C1 as stated: every complete encoding whose axis product fits usize decodes
\* with IdxArray::<T, N>::parse to exactly its axes and element values.
C1_ProductFitsRoundTrip == (ValidEncoding /\ ProductFits(src.dims)) => RoundTrips

\* C1, amended: every complete encoding whose axis sizes and whose running axis
\* products, left to right, all fit usize decodes with IdxArray::<T, N>::parse,
\* and dims_data() returns exactly its axes and its element values, in order.
C1_RoundTrip == (ValidEncoding /\ PrefixesFit(src.dims)) => RoundTrips

\* The spec's scenario: 00 00 08 01 00000003 05 00 09 as rank-1 u8.
C1_Witness ==
    /\ entry = "lib" /\ T = "u8" /\ N = 1
    /\ input = <<0, 0, 8, 1, 0, 0, 0, 3, 5, 0, 9>>
    /\ out.kind = "dims_data" /\ out.dims = << <<3>> >> /\ out.data = <<5, 0, 9>>

\* ------------------------------------------------------------ C2
\* C2: in both entry points, a header whose axis sizes multiply to more than
\* usize::MAX makes the decode return the failure value: no success, no abort.
C2_OverflowIsFailure ==
    (ShapeRead /\ ~ProductFits(HeaderAxes)) => (stage = "Failed" /\ result = "Err")

\* ------------------------------------------------------------ C3
\* C3: every array a decode returns holds exactly product(axes) elements (the
\* mathematical product), and a rank-1 array's into_sequence() has the length
\* of its axis.
C3_LengthIsProduct ==
    /\ arr.set => IntToBig(Len(arr.val.data)) = MathProduct(arr.val.dims)
    /\ out.kind = "dims_data" => IntToBig(Len(out.data)) = MathProduct(out.dims)
    /\ out.kind = "sequence" => IntToBig(Len(out.seq)) = dims.val[1]

C3_Witness ==
    /\ out.kind = "sequence" /\ Len(out.seq) = 2 /\ dims.val = << <<2>> >>

\* ------------------------------------------------------------ C4
\* C4: for every rank-3 u8 array [n, h, w] a decode returns,
\* as_gray_image_sequence returns n images of width w and height h holding the
\* consecutive h*w-element chunks, and never aborts.
C4_GrayImages ==
    out.kind \in {"images", "panic"} =>
        /\ out.kind = "images"
        /\ IntToBig(Len(out.images)) = arr.val.dims[1]
        /\ \A i \in 1..Len(out.images) :
               LET l == Len(out.images[i].pixels)
               IN  /\ out.images[i].width = arr.val.dims[3]
                   /\ out.images[i].height = arr.val.dims[2]
                   /\ IntToBig(l) = BigMul(arr.val.dims[2], arr.val.dims[3])
                   /\ out.images[i].pixels = SubSeq(arr.val.data, (i - 1) * l + 1, i * l)

\* ------------------------------------------------------------ C5
\* C5: a buffer whose byte at offset 2 is not T's magic tag never gets past the
\* tag check and decodes to the failure value, whatever follows; a buffer that
\* decodes as T decodes as no other element type.
C5_TagMismatchFails ==
    /\ (Len(input) >= 3 /\ input[3] # MAGIC_BYTE(T)) =>
           /\ stage \notin PastTypeTag
           /\ result \in {"pending", "Err"}
           /\ Decode(entry, T, N, input, usize_bytes) = Error
    /\ Succeeded =>
           \A t \in Types \ {T} : Decode(entry, t, N, input, usize_bytes) = Error

\* A complete i8 encoding, asked for as u8: the byte counts match.
C5_Witness ==
    /\ T = "u8" /\ src.mut = [kind |-> "settag", arg |-> 9] /\ Len(src.vals) = 2
    /\ Decode(entry, "i8", N, input, usize_bytes).kind = "Ok"
    /\ stage = "Failed"

\* ------------------------------------------------------------ C6
\* C6: a buffer that decodes, followed by any one byte, decodes to the failure
\* value.
C6_TrailingByteFails ==
    /\ Succeeded =>
           \A c \in (IF Len(input) <= ShortLen THEN 0..255 ELSE AppendBytes) :
               Decode(entry, T, N, Append(input, c), usize_bytes) = Error
    /\ (src.mut.kind = "append"
        /\ Decode(entry, T, N, Take(input, Len(input) - 1), usize_bytes).kind = "Ok") =>
           /\ stage \notin {"EndOfInputChecked", "Aborted"}
           /\ result \in {"pending", "Err"}

C6_Witness ==
    /\ src.mut.kind = "append" /\ T = "i16" /\ entry = "lib"
    /\ stage = "Failed" /\ data.set /\ Len(data.val) = 2 /\ Len(x) = 1

\* ------------------------------------------------------------ C7
\* C7: every proper prefix of a buffer that decodes, decodes to the failure
\* value.
C7_TruncationFails ==
    /\ Succeeded =>
           \A k \in 0..(Len(input) - 1) :
               Decode(entry, T, N, Take(input, k), usize_bytes) = Error
    /\ (src.mut.kind = "trunc"
        /\ Decode(entry, T, N, Encode(src.T, src.dims, src.vals), usize_bytes).kind = "Ok") =>
           /\ stage \notin {"EndOfInputChecked", "Aborted"}
           /\ result \in {"pending", "Err"}

\* A cut in the middle of the second i32 element.
C7_Witness ==
    /\ src.mut.kind = "trunc" /\ T = "i32" /\ entry = "lib"
    /\ stage = "Failed" /\ dims.set /\ Len(x) = 6

\* ------------------------------------------------------------ C8
\* C8: in IdxArray::<T, N>::parse a rank byte other than N never gets past the
\* rank check and decodes to the failure value; changing the rank byte of a
\* buffer that decodes, to any other value, makes it fail.
C8_RankMismatchFails ==
    entry = "lib" =>
        /\ (Len(input) >= 4 /\ input[4] # N) =>
               /\ stage \notin PastRank
               /\ result \in {"pending", "Err"}
               /\ parse(T, N, input, usize_bytes) = Error
        /\ Succeeded =>
               \A r \in (0..255) \ {N} :
                   parse(T, N, [input EXCEPT ![4] = r], usize_bytes) = Error

\* The spec's scenario: the rank-1 u8 example with its rank byte changed to 02.
C8_Witness ==
    /\ entry = "lib" /\ T = "u8" /\ N = 1
    /\ input = <<0, 0, 8, 2, 0, 0, 0, 3, 5, 0, 9>>
    /\ stage = "Failed" /\ result = "Err"

\* ------------------------------------------------------------ C9
StageSucc ==
    {<<"Start", "SignatureChecked">>, <<"SignatureChecked", "TypeTagChecked">>,
     <<"TypeTagChecked", "RankChecked">>, <<"RankChecked", "ShapeParsed">>,
     <<"ShapeParsed", "ElementsParsed">>, <<"ElementsParsed", "EndOfInputChecked">>}
Running == {p[1] : p \in StageSucc}

\* C9: a run of parse::<T, N> visits the stages in order; the first failing
\* check moves it to Failed, with the cursor where the failing field starts and
\* no array; nothing follows Failed; an array exists only in
\* EndOfInputChecked.
C9_StageOrder ==
    [][entry = "lib" =>
        /\ stage' # stage =>
               \/ <<stage, stage'>> \in StageSucc
               \/ stage \in Running /\ stage' = "Failed"
        /\ stage = "Failed" => vars' = vars
        /\ stage' = "Failed" => x' = x /\ ~arr'.set /\ result' = "Err"
        /\ arr'.set => stage' = "EndOfInputChecked"
        /\ result' = "Ok" <=> stage' = "EndOfInputChecked"
        /\ stage' \in Running => result' = "pending"
        /\ out'.kind # "none" => stage' = "EndOfInputChecked"]_vars

\* A run that failed reading the elements, after the shape was parsed.
C9_Witness ==
    /\ entry = "lib" /\ stage = "Failed" /\ dims.set /\ ~data.set
    /\ ~arr.set /\ result = "Err" /\ Len(x) > 0

\* ------------------------------------------------------------ C10
\* C10 as stated: overflow is detected exactly when the mathematical product
\* of the axis sizes exceeds usize::MAX.
C10_OverflowIffProductTooBig ==
    ShapeRead => (OverflowDetected <=> ~ProductFits(HeaderAxes))

\* C10, amended: overflow is detected exactly when an axis size, or the product
\* of some left-to-right prefix of the axis sizes, exceeds usize::MAX.
C10_OverflowIffPrefixTooBig ==
    ShapeRead => (OverflowDetected <=> ~PrefixesFit(HeaderAxes))

\* On a 64-bit target: three axis sizes whose product overflows.
C10_Witness ==
    /\ usize_bytes = 8 /\ entry = "lib" /\ ShapeRead /\ OverflowDetected
    /\ Len(HeaderAxes) = 3 /\ ~HasZeroAxis(HeaderAxes)

====
